---------------------------- MODULE Spec2Model ----------------------------
(***************************************************************************)
(* A model of the meal_max battle engine: the Meal dataclass               *)
(* (models/kitchen_model.py), the BattleModel arena                        *)
(* (models/battle_model.py) and the random.org client                      *)
(* (utils/random_utils.py).                                                *)
(*                                                                         *)
(* Numbers.  A battle score, delta and the random number are Python floats *)
(* (IEEE 754 binary64), and every operation on them rounds as Python's     *)
(* does: 14.32 * 7 - 1 is 99.24000000000001.  A price is the float of the  *)
(* two-place decimal literal the caller writes: Hundredths(1299) is the    *)
(* float 12.99.                                                            *)
(*                                                                         *)
(* Texts.  The body of an HTTP response is a sequence of characters, a     *)
(* character being its Unicode code point ("39\n" is <<51, 57, 10>>).      *)
(*                                                                         *)
(* Objects.  A Meal is a Python object: the arena's list holds references. *)
(* meals maps each reference (1, 2, ...) to the object's fields;           *)
(* list.remove compares by value (dataclass __eq__), as Python does.       *)
(***************************************************************************)
EXTENDS Integers, Sequences, FiniteSets, TLC

VARIABLES
    meals,          \* the constructed Meal objects: reference -> fields
    combatants,     \* BattleModel.combatants: a list of references
    pc,             \* where the running battle() is; "idle" between calls
    combatant_1,    \* locals of battle()
    combatant_2,
    score_1,
    score_2,
    delta,
    random_number,
    winner,
    loser,
    requests,       \* HTTP requests made by the latest call
    stats_calls,    \* update_meal_stats invocations made by the latest call
    recorded,       \* those invocations that committed
    last            \* the latest call: its name and how it ended

vars == <<meals, combatants, pc, combatant_1, combatant_2, score_1, score_2,
          delta, random_number, winner, loser, requests, stats_calls,
          recorded, last>>

locals == <<combatant_1, combatant_2, score_1, score_2, delta, random_number,
            winner, loser>>

-----------------------------------------------------------------------------
(* Python floats: IEEE 754 binary64, every operation rounded to the nearest
   float, ties to the even mantissa.  A 53-bit mantissa does not fit the
   integers available here, so a natural number is kept in limbs of
   15 bits, least significant limb first, without leading zero limbs (zero
   is the empty sequence). *)

LimbBits == 15
Base == 32768

RECURSIVE Pow2(_)
Pow2(k) == IF k = 0 THEN 1 ELSE 2 * Pow2(k - 1)

Max(a, b) == IF a >= b THEN a ELSE b

\* Drop the zero limbs at the most significant end.
Trim(a) ==
    LET nz == {i \in 1..Len(a) : a[i] # 0}
    IN IF nz = {} THEN <<>>
       ELSE SubSeq(a, 1, CHOOSE i \in nz : \A j \in nz : j <= i)

NatOf(n) ==
    Trim(<<n % Base, (n \div Base) % Base, n \div (Base * Base)>>)

Pad(a, k) == a \o [i \in 1..(k - Len(a)) |-> 0]

\* The operations below work on a sequence of limbs by halves, passing the
\* carry from the low half to the high half (the remainder, in a division,
\* from the high half to the low half).  The carry is never negative; the
\* test of it makes the low half be evaluated before the high half starts.

\* a + b + carry for a and b of one length: the limbs and the carry out.
RECURSIVE AddRaw(_, _, _)
AddRaw(a, b, carry) ==
    IF carry < 0 \/ Len(a) = 0 THEN [v |-> <<>>, c |-> carry]
    ELSE IF Len(a) = 1
      THEN LET t == a[1] + b[1] + carry
           IN [v |-> <<t % Base>>, c |-> t \div Base]
    ELSE LET h == Len(a) \div 2
             lo == AddRaw(SubSeq(a, 1, h), SubSeq(b, 1, h), carry)
             hi == AddRaw(SubSeq(a, h + 1, Len(a)), SubSeq(b, h + 1, Len(a)), lo.c)
         IN [v |-> lo.v \o hi.v, c |-> hi.c]

AddN(a, b, carry) ==
    LET k == Max(Len(a), Len(b))
        r == AddRaw(Pad(a, k), Pad(b, k), carry)
    IN Trim(Append(r.v, r.c))

\* a - b - borrow for a and b of one length: the limbs and the borrow out.
RECURSIVE SubRaw(_, _, _)
SubRaw(a, b, borrow) ==
    IF borrow < 0 \/ Len(a) = 0 THEN [v |-> <<>>, c |-> borrow]
    ELSE IF Len(a) = 1
      THEN LET t == a[1] - b[1] - borrow
           IN [v |-> <<IF t < 0 THEN t + Base ELSE t>>, c |-> IF t < 0 THEN 1 ELSE 0]
    ELSE LET h == Len(a) \div 2
             lo == SubRaw(SubSeq(a, 1, h), SubSeq(b, 1, h), borrow)
             hi == SubRaw(SubSeq(a, h + 1, Len(a)), SubSeq(b, h + 1, Len(a)), lo.c)
         IN [v |-> lo.v \o hi.v, c |-> hi.c]

\* a - b for a >= b.
SubN(a, b) == Trim(SubRaw(a, Pad(b, Len(a)), 0).v)

\* -1, 0, 1 as a < b, a = b, a > b.
CmpN(a, b) ==
    IF Len(a) < Len(b) THEN -1
    ELSE IF Len(a) > Len(b) THEN 1
    ELSE LET df == {i \in 1..Len(a) : a[i] # b[i]}
         IN IF df = {} THEN 0
            ELSE LET i == CHOOSE i \in df : \A j \in df : j <= i
                 IN IF a[i] < b[i] THEN -1 ELSE 1

\* a * n + carry for 0 <= n < Base: the limbs and the carry out.
RECURSIVE MulRaw(_, _, _)
MulRaw(a, n, carry) ==
    IF carry < 0 \/ Len(a) = 0 THEN [v |-> <<>>, c |-> carry]
    ELSE IF Len(a) = 1
      THEN LET t == a[1] * n + carry
           IN [v |-> <<t % Base>>, c |-> t \div Base]
    ELSE LET h == Len(a) \div 2
             lo == MulRaw(SubSeq(a, 1, h), n, carry)
             hi == MulRaw(SubSeq(a, h + 1, Len(a)), n, lo.c)
         IN [v |-> lo.v \o hi.v, c |-> hi.c]

MulS(a, n, carry) ==
    LET r == MulRaw(a, n, carry) IN Trim(Append(r.v, r.c))

\* Quotient limbs and remainder of (rem * Base^Len(a) + a) by n, for
\* 0 <= rem < n < Base.
RECURSIVE DivRaw(_, _, _)
DivRaw(a, n, rem) ==
    IF rem < 0 \/ Len(a) = 0 THEN [q |-> <<>>, r |-> rem]
    ELSE IF Len(a) = 1
      THEN LET t == rem * Base + a[1]
           IN [q |-> <<t \div n>>, r |-> t % n]
    ELSE LET h == Len(a) \div 2
             hi == DivRaw(SubSeq(a, h + 1, Len(a)), n, rem)
             lo == DivRaw(SubSeq(a, 1, h), n, hi.r)
         IN [q |-> lo.q \o hi.q, r |-> lo.r]

DivS(a, n) ==
    LET d == DivRaw(a, n, 0)
    IN [q |-> Trim(d.q), r |-> d.r]

Zeros(k) == [i \in 1..k |-> 0]

ShlN(a, k) ==
    IF a = <<>> THEN <<>>
    ELSE Zeros(k \div LimbBits) \o MulS(a, Pow2(k % LimbBits), 0)

ShrN(a, k) ==
    IF k \div LimbBits >= Len(a) THEN <<>>
    ELSE DivS(SubSeq(a, (k \div LimbBits) + 1, Len(a)), Pow2(k % LimbBits)).q

\* Bit i (bit 0 is the least significant).
BitN(a, i) ==
    IF i \div LimbBits >= Len(a) THEN 0
    ELSE (a[(i \div LimbBits) + 1] \div Pow2(i % LimbBits)) % 2

\* Is one of the bits 0..k-1 set?
LowBitsSet(a, k) ==
    \E j \in 1..Len(a) :
        /\ a[j] # 0
        /\ \/ j <= k \div LimbBits
           \/ j = (k \div LimbBits) + 1 /\ a[j] % Pow2(k % LimbBits) # 0

RECURSIVE BitLenInt(_)
BitLenInt(n) == IF n = 0 THEN 0 ELSE 1 + BitLenInt(n \div 2)

BitLen(a) == IF a = <<>> THEN 0 ELSE LimbBits * (Len(a) - 1) + BitLenInt(a[Len(a)])

\* Number of trailing zero bits of a # 0.
RECURSIVE TrailingZerosInt(_)
TrailingZerosInt(n) == IF n % 2 = 1 THEN 0 ELSE 1 + TrailingZerosInt(n \div 2)

TrailingZeros(a) ==
    LET i == CHOOSE i \in 1..Len(a) : a[i] # 0 /\ \A j \in 1..(i - 1) : a[j] = 0
    IN LimbBits * (i - 1) + TrailingZerosInt(a[i])

\* A float: (-1)^neg * m * 2^e with m odd (or m zero and e = 0), or an
\* infinity, or a NaN.
Finite(neg, m, e) == [kind |-> "finite", neg |-> neg, m |-> m, e |-> e]
Inf(neg) == [kind |-> "inf", neg |-> neg, m |-> <<>>, e |-> 0]
NaN == [kind |-> "nan", neg |-> FALSE, m |-> <<>>, e |-> 0]
FZero == Finite(FALSE, <<>>, 0)

Canonical(neg, m, e) ==
    IF m = <<>> THEN Finite(neg, <<>>, 0)
    ELSE LET tz == TrailingZeros(m)
         IN Finite(neg, ShrN(m, tz), e + tz)

\* A finite float, or the infinity if its leading bit is 2^1024 or above.
Overflowing(neg, m, e) ==
    IF m # <<>> /\ e + BitLen(m) - 1 >= 1024 THEN Inf(neg) ELSE Canonical(neg, m, e)

\* The binary64 nearest to (-1)^neg * (m + f) * 2^e, where 0 <= f < 1 and
\* sticky says f # 0; ties go to the even mantissa.  53 bits of precision,
\* least exponent -1074 (subnormals), overflow to infinity.
RoundD(neg, m, e, sticky) ==
    LET msb == e + BitLen(m) - 1
        qe == Max(msb - 52, -1074)
        k == qe - e
    IN IF k <= 0 THEN Overflowing(neg, m, e)
       ELSE LET q == ShrN(m, k)
                half == BitN(m, k - 1) = 1
                rest == sticky \/ LowBitsSet(m, k - 1)
                odd == BitN(m, k) = 1
                r == IF half /\ (rest \/ odd) THEN AddN(q, <<>>, 1) ELSE q
            IN Overflowing(neg, r, qe)

\* float(n) for an integer of small magnitude.
FloatOfInt(n) == IF n < 0 THEN Canonical(TRUE, NatOf(-n), 0) ELSE Canonical(FALSE, NatOf(n), 0)

\* x * n for a float x and an int 0 <= n < Base: a NaN stays a NaN, an
\* infinity times 0 is a NaN, an infinity times n > 0 is that infinity.
FMulInt(x, n) ==
    IF x.kind = "nan" THEN NaN
    ELSE IF x.kind = "inf" THEN (IF n = 0 THEN NaN ELSE x)
    ELSE RoundD(x.neg, MulS(x.m, n, 0), x.e, FALSE)

\* -x and abs(x); the sign of a NaN is not observable and is not kept.
FNeg(x) == IF x.kind = "nan" THEN NaN ELSE [x EXCEPT !.neg = ~x.neg]
FAbs(x) == IF x.kind = "nan" THEN NaN ELSE [x EXCEPT !.neg = FALSE]

\* The mantissa of a finite float at the exponent e0 <= x.e.
Aligned(x, e0) == ShlN(x.m, x.e - e0)

\* -1, 0, 1 as x < y, x = y, x > y, for finite floats.
FCmp(x, y) ==
    LET e0 == IF x.e <= y.e THEN x.e ELSE y.e
        c == CmpN(Aligned(x, e0), Aligned(y, e0))
    IN IF x.m = <<>> /\ y.m = <<>> THEN 0
       ELSE IF x.neg /\ ~y.neg THEN -1
       ELSE IF ~x.neg /\ y.neg THEN 1
       ELSE IF x.m = <<>> THEN (IF x.neg THEN 1 ELSE -1)
       ELSE IF y.m = <<>> THEN (IF x.neg THEN -1 ELSE 1)
       ELSE IF x.neg THEN -c ELSE c

\* x + y and x - y for finite floats, exactly: the result has the shape of
\* a float but as many mantissa bits as it takes.
ExactAdd(x, y) ==
    LET e0 == IF x.e <= y.e THEN x.e ELSE y.e
        a == Aligned(x, e0)
        b == Aligned(y, e0)
        c == CmpN(a, b)
    IN IF x.neg = y.neg THEN Canonical(x.neg, AddN(a, b, 0), e0)
       ELSE IF c = 0 THEN FZero
       ELSE IF c > 0 THEN Canonical(x.neg, SubN(a, b), e0)
       ELSE Canonical(y.neg, SubN(b, a), e0)

ExactSub(x, y) == ExactAdd(x, FNeg(y))

\* x + y and x - y as the machine computes them: a NaN operand gives a
\* NaN, the two infinities of opposite sign add to a NaN, an infinity
\* outweighs a finite float, and a finite sum is rounded (to an infinity if
\* it overflows).
FAdd(x, y) ==
    IF x.kind = "nan" \/ y.kind = "nan" THEN NaN
    ELSE IF x.kind = "inf"
      THEN (IF y.kind = "inf" /\ y.neg # x.neg THEN NaN ELSE x)
    ELSE IF y.kind = "inf" THEN y
    ELSE LET sum == ExactAdd(x, y) IN RoundD(sum.neg, sum.m, sum.e, FALSE)

FSub(x, y) == FAdd(x, FNeg(y))

\* x / n for a float x and an int 0 < n < Base; an infinity and a NaN stay.
FDivInt(x, n) ==
    IF x.kind # "finite" \/ x.m = <<>> THEN x
    ELSE LET s == Max(0, 72 - BitLen(x.m))
             d == DivS(ShlN(x.m, s), n)
         IN RoundD(x.neg, d.q, x.e - s, d.r # 0)

\* x > y as Python compares floats: false if either is a NaN.
FGreater(x, y) ==
    IF x.kind = "nan" \/ y.kind = "nan" THEN FALSE
    ELSE IF x.kind = "inf" THEN ~x.neg /\ ~(y.kind = "inf" /\ ~y.neg)
    ELSE IF y.kind = "inf" THEN y.neg
    ELSE FCmp(x, y) > 0

\* x == y as Python compares floats.
FEqual(x, y) ==
    IF x.kind = "nan" \/ y.kind = "nan" THEN FALSE
    ELSE IF x.kind = "inf" \/ y.kind = "inf" THEN x.kind = y.kind /\ x.neg = y.neg
    ELSE FCmp(x, y) = 0

\* d * 10^x for a natural d and an int x, correctly rounded: what float()
\* makes of a decimal numeral.
PowersOf10 == <<10, 100, 1000, 10000>>

\* a * 10^x.
RECURSIVE MulPow10(_, _)
MulPow10(a, x) ==
    IF x = 0 \/ a = <<>> THEN a
    ELSE IF x <= 4 THEN MulS(a, PowersOf10[x], 0)
    ELSE MulPow10(MulPow10(a, x \div 2), x - (x \div 2))

\* Quotient of a by 10^x, and whether a remainder was dropped.
RECURSIVE DivPow10(_, _)
DivPow10(a, x) ==
    IF x = 0 \/ a = <<>> THEN [q |-> a, sticky |-> FALSE]
    ELSE IF x <= 4
      THEN LET d == DivS(a, PowersOf10[x]) IN [q |-> d.q, sticky |-> d.r # 0]
    ELSE LET first == DivPow10(a, x \div 2)
             second == DivPow10(first.q, x - (x \div 2))
         IN [q |-> second.q, sticky |-> first.sticky \/ second.sticky]

\* Bounds of the number of decimal digits of a > 0, from
\* 2^(BitLen - 1) <= a < 2^BitLen and 3/10 < log10(2) < 4/13.
DigitsAtLeast(a) == (((BitLen(a) - 1) * 3) \div 10) + 1
DigitsAtMost(a) == ((BitLen(a) * 4) \div 13) + 1

\* A numeral of n digits times 10^x is at least 10^(n + x - 1) and below
\* 10^(n + x): from 10^309 on the nearest float is the infinity, below
\* 10^-324 it is zero; anything between is computed exactly and rounded.
FloatOfDecimal(neg, d, x) ==
    IF d = <<>> THEN Finite(neg, <<>>, 0)
    ELSE IF DigitsAtLeast(d) + x >= 310 THEN Inf(neg)
    ELSE IF DigitsAtMost(d) + x <= -324 THEN Finite(neg, <<>>, 0)
    ELSE IF x >= 0 THEN RoundD(neg, MulPow10(d, x), 0, FALSE)
    ELSE LET s == Max(0, 72 + 4 * (-x) - BitLen(d))
             r == DivPow10(ShlN(d, s), -x)
         IN RoundD(neg, r.q, -s, r.sticky)

\* The float a caller writes as the decimal n / 100.
Hundredths(n) == FloatOfDecimal(n < 0, NatOf(IF n < 0 THEN -n ELSE n), -2)

-----------------------------------------------------------------------------
(* Bounds and inputs *)

\* How many Meal objects a run constructs.
MaxMeals == 2

\* The display name and cuisine a caller gives the meal with a given id.
MealNames == <<"Pizza", "Burger", "Sushi", "Tacos">>
MealCuisines == <<"Italian", "American", "Japanese", "Mexican">>

\* Prices a caller passes: -10.99, 0.00, 500.00.
PriceInputs == {Hundredths(-1099), Hundredths(0), Hundredths(50000)}

\* Difficulty labels a caller passes to the constructor or assigns.
DifficultyInputs == {"Easy", "Hard", "LOW", "MED", "HIGH", "INVALID"}
AssignedDifficulties == {"LOW", "MED", "HIGH", "INVALID"}

\* Bodies random.org answers with (one integer of 1..100 and a newline, as
\* the URL asks): "1\n", "39\n", "40\n", "100\n".
NumericBodies == { <<49, 10>>, <<51, 57, 10>>, <<52, 48, 10>>, <<49, 48, 48, 10>> }

\* Other bodies float() reads: "-3\n", and "0.5" followed by a form feed.
OtherFloatBodies == { <<45, 51, 10>>, <<48, 46, 53, 12>> }

\* Bodies float() does not read: the empty body and "Error".
BadBodies == { <<>>, <<69, 114, 114, 111, 114>> }

\* The text of a request failure, str(e): "boom".
FailureTexts == { <<98, 111, 111, 109>> }

\* What requests.get can do: time out, fail otherwise (connection error, or
\* an HTTP error status raised by raise_for_status) with some text, or
\* deliver a body.
Responses ==
    {[kind |-> "Timeout", text |-> <<>>]}
    \cup {[kind |-> "RequestException", text |-> t] : t \in FailureTexts}
    \cup {[kind |-> "ok", text |-> b] :
             b \in NumericBodies \cup OtherFloatBodies \cup BadBodies}

\* What one update_meal_stats call can do.
StatsOutcomes == {"ok", "ValueError", "sqlite3.Error"}

-----------------------------------------------------------------------------
(* Meal (kitchen_model.py) *)

\* __post_init__, line 37: the price check.
PriceRejectedNever(price) == FALSE
PriceRejected(price) == FGreater(FZero, price)

\* __post_init__, line 39: the labels the constructor accepts.
ConstructorDifficulties == {"Easy", "Medium", "Hard"}

DifficultyRejected(difficulty) == difficulty \notin ConstructorDifficulties

NewMeal(id, meal, cuisine, price, difficulty) ==
    [id |-> id, meal |-> meal, cuisine |-> cuisine, price |-> price,
     difficulty |-> difficulty]

None == "None"

\* How the latest call ended: what it returned, or the exception it raised
\* with its message.  A message built with % keeps the format in value and
\* the text put in its place in detail.
Running(op) == [op |-> op, raised |-> "running", value |-> None, detail |-> <<>>]

Returned(op, value) == [op |-> op, raised |-> None, value |-> value, detail |-> <<>>]
Raised(op, exc, msg) == [op |-> op, raised |-> exc, value |-> msg, detail |-> <<>>]
RaisedWith(op, exc, format, text) ==
    [op |-> op, raised |-> exc, value |-> format, detail |-> text]

\* A call starts with no request made and no statistic reported.
NoEffects ==
    /\ requests' = 0
    /\ stats_calls' = <<>>
    /\ recorded' = <<>>

\* Meal(id, meal, cuisine, price, difficulty): the dataclass constructor and
\* its __post_init__ validation.  The new object gets the next reference;
\* ids are unique (the storage layer assigns them), so the n-th object is
\* given id n.  A refused construction yields no object.
Meal(id, meal, cuisine, price, difficulty) ==
    /\ pc = "idle"
    /\ id = Cardinality(DOMAIN meals) + 1
    /\ id <= MaxMeals
    /\ IF PriceRejected(price)
         THEN /\ last' = Raised("Meal", "ValueError", "Price must be a positive value.")
              /\ UNCHANGED meals
       ELSE IF DifficultyRejected(difficulty)
         THEN /\ last' = Raised("Meal", "ValueError", "Difficulty must be 'Easy', 'Medium', or 'Hard'.")
              /\ UNCHANGED meals
       ELSE /\ meals' = meals @@ (id :> NewMeal(id, meal, cuisine, price, difficulty))
            /\ last' = Returned("Meal", id)
    /\ NoEffects
    /\ UNCHANGED <<combatants, pc, locals>>

\* meal.difficulty = value: the dataclass is not frozen, so a caller can
\* assign a field of a constructed Meal; __post_init__ does not run again.
SetDifficulty(ref, value) ==
    /\ pc = "idle"
    /\ ref \in DOMAIN meals
    /\ meals' = [meals EXCEPT ![ref].difficulty = value]
    /\ last' = Returned("setattr", ref)
    /\ NoEffects
    /\ UNCHANGED <<combatants, pc, locals>>

-----------------------------------------------------------------------------
(* get_random (random_utils.py).  A text is a sequence of characters, a
   character its Unicode code point. *)

\* The characters str.strip() removes: those str.isspace() accepts.
Spaces ==
    {9, 10, 11, 12, 13, 28, 29, 30, 31, 32, 133, 160, 5760} \cup (8192..8202)
    \cup {8232, 8233, 8239, 8287, 12288}

IsSpace(c) == c \in Spaces

\* The digit zero of every script: the ten decimal digits of a script are
\* consecutive code points, and float() reads them all.
DecimalZeros ==
    {48, 1632, 1776, 1984, 2406, 2534, 2662, 2790, 2918, 3046, 3174, 3302,
     3430, 3558, 3664, 3792, 3872, 4160, 4240, 6112, 6160, 6470, 6608, 6784,
     6800, 6992, 7088, 7232, 7248, 42528, 43216, 43264, 43472, 43504, 43600,
     44016, 65296, 66720, 68912, 69734, 69872, 69942, 70096, 70384, 70736,
     70864, 71248, 71360, 71472, 71904, 72016, 72784, 73040, 73120, 92768,
     92864, 93008, 120782, 120792, 120802, 120812, 120822, 123200, 123632,
     125264, 130032}

IsDigit(c) == \E z \in DecimalZeros : c \in z..(z + 9)

DigitValue(c) == c - (CHOOSE z \in DecimalZeros : c \in z..(z + 9))

\* Where the first and the last character outside a set stand in a text,
\* 0 if the text has none.
FirstOutside(s, set) ==
    IF \A i \in 1..Len(s) : s[i] \in set THEN 0
    ELSE CHOOSE i \in 1..Len(s) : s[i] \notin set /\ \A j \in 1..(i - 1) : s[j] \in set

LastOutside(s, set) ==
    IF \A i \in 1..Len(s) : s[i] \in set THEN 0
    ELSE CHOOSE i \in 1..Len(s) : s[i] \notin set /\ \A j \in (i + 1)..Len(s) : s[j] \in set

\* str.strip(): drop leading and trailing whitespace.
Strip(s) ==
    IF FirstOutside(s, Spaces) = 0 THEN <<>>
    ELSE SubSeq(s, FirstOutside(s, Spaces), LastOutside(s, Spaces))

\* float(str), on a stripped text: [sign] (number [exponent] | inf |
\* infinity | nan), a number being digits with at most one point and a
\* digit before or after it, digits being separable by single underscores.
PlusSign == 43
MinusSign == 45
Point == 46
Underscore == 95
ExponentMarks == {69, 101}

\* The letters of "inf", "infinity" and "nan", in lower case.
WordInf == <<105, 110, 102>>
WordInfinity == <<105, 110, 102, 105, 110, 105, 116, 121>>
WordNan == <<110, 97, 110>>

Lower(c) == IF c \in 65..90 THEN c + 32 ELSE c

LowerText(s) == [i \in 1..Len(s) |-> Lower(s[i])]

\* Where the first character of a set stands in a text, 0 if nowhere.
IndexOf(s, set) ==
    IF \E i \in 1..Len(s) : s[i] \in set
      THEN CHOOSE i \in 1..Len(s) : s[i] \in set /\ \A j \in 1..(i - 1) : s[j] \notin set
      ELSE 0

HasSign(s) == s # <<>> /\ s[1] \in {PlusSign, MinusSign}

Unsigned(s) == IF HasSign(s) THEN Tail(s) ELSE s

IsNegative(s) == s # <<>> /\ s[1] = MinusSign

MantissaText(u) ==
    IF IndexOf(u, ExponentMarks) = 0 THEN u
    ELSE SubSeq(u, 1, IndexOf(u, ExponentMarks) - 1)

ExponentText(u) == SubSeq(u, IndexOf(u, ExponentMarks) + 1, Len(u))

IntegerText(m) ==
    IF IndexOf(m, {Point}) = 0 THEN m ELSE SubSeq(m, 1, IndexOf(m, {Point}) - 1)

FractionText(m) ==
    IF IndexOf(m, {Point}) = 0 THEN <<>> ELSE SubSeq(m, IndexOf(m, {Point}) + 1, Len(m))

IsDigitPart(s) ==
    /\ s # <<>>
    /\ IsDigit(s[1])
    /\ IsDigit(s[Len(s)])
    /\ \A i \in 1..Len(s) : IsDigit(s[i]) \/ s[i] = Underscore
    /\ \A i \in 1..(Len(s) - 1) : ~(s[i] = Underscore /\ s[i + 1] = Underscore)

IsMantissa(m) ==
    IF IndexOf(m, {Point}) = 0 THEN IsDigitPart(m)
    ELSE /\ IntegerText(m) = <<>> \/ IsDigitPart(IntegerText(m))
         /\ FractionText(m) = <<>> \/ IsDigitPart(FractionText(m))
         /\ IntegerText(m) # <<>> \/ FractionText(m) # <<>>

IsFloatText(s) ==
    LET u == Unsigned(s)
    IN \/ LowerText(u) \in {WordInf, WordInfinity, WordNan}
       \/ /\ IsMantissa(MantissaText(u))
          /\ IndexOf(u, ExponentMarks) = 0 \/ IsDigitPart(Unsigned(ExponentText(u)))

\* (the empty text read as a number too)
IsNumberOrEmpty(s) == s = <<>> \/ IsFloatText(s)

\* Does float(s) return (rather than raise ValueError)?
IsNumber(s) == IsFloatText(s)

DigitsOf(s) == SelectSeq(s, IsDigit)

\* The natural number a text of digits writes.
RECURSIVE NatOfDigits(_)
NatOfDigits(s) ==
    IF s = <<>> THEN <<>>
    ELSE IF Len(s) = 1 THEN NatOf(DigitValue(s[1]))
    ELSE LET h == Len(s) \div 2
             front == NatOfDigits(SubSeq(s, 1, h))
             back == NatOfDigits(SubSeq(s, h + 1, Len(s)))
         IN AddN(MulPow10(front, Len(s) - h), back, 0)

\* An integer of any size: a sign and a magnitude in limbs.
Signed(neg, mag) == [neg |-> neg /\ mag # <<>>, mag |-> mag]

SignedOfInt(n) == Signed(n < 0, NatOf(IF n < 0 THEN -n ELSE n))

SignedAdd(a, b) ==
    IF a.neg = b.neg THEN Signed(a.neg, AddN(a.mag, b.mag, 0))
    ELSE IF CmpN(a.mag, b.mag) >= 0 THEN Signed(a.neg, SubN(a.mag, b.mag))
    ELSE Signed(b.neg, SubN(b.mag, a.mag))

\* The int a signed integer of at most three limbs is.
IntOfSigned(a) ==
    LET n == (IF Len(a.mag) >= 1 THEN a.mag[1] ELSE 0)
             + (IF Len(a.mag) >= 2 THEN Base * a.mag[2] ELSE 0)
             + (IF Len(a.mag) >= 3 THEN Base * Base * a.mag[3] ELSE 0)
    IN IF a.neg THEN -n ELSE n

\* The digits of a text from its first digit that is not a zero on.
WithoutLeadingZeros(ds) ==
    IF FirstOutside(ds, DecimalZeros) = 0 THEN <<>>
    ELSE SubSeq(ds, FirstOutside(ds, DecimalZeros), Len(ds))

\* The exponent a text writes, whatever its size.
ExponentOf(x) ==
    Signed(IsNegative(x), NatOfDigits(WithoutLeadingZeros(DigitsOf(Unsigned(x)))))

\* float(s) for a text float() accepts.  The numeral is its significant
\* digits (from the first to the last digit that is not a zero) times a
\* power of ten, whose exponent is the written exponent, less the number of
\* fraction digits, plus the number of zeros dropped at the end.
ToFloat(s) ==
    LET u == Unsigned(s)
        m == MantissaText(u)
        ds == DigitsOf(IntegerText(m)) \o DigitsOf(FractionText(m))
        firstDigit == FirstOutside(ds, DecimalZeros)
        lastDigit == LastOutside(ds, DecimalZeros)
        written == IF IndexOf(u, ExponentMarks) = 0 THEN Signed(FALSE, <<>>)
                   ELSE ExponentOf(ExponentText(u))
        x == SignedAdd(written,
                       SignedOfInt((Len(ds) - lastDigit) - Len(DigitsOf(FractionText(m)))))
        above == SignedAdd(x, SignedOfInt(-310))
        below == SignedAdd(x, SignedOfInt(324 + (lastDigit - firstDigit + 1)))
    IN IF LowerText(u) \in {WordInf, WordInfinity} THEN Inf(IsNegative(s))
       ELSE IF LowerText(u) = WordNan THEN NaN
       ELSE IF firstDigit = 0 THEN Finite(IsNegative(s), <<>>, 0)
       ELSE IF ~above.neg THEN Inf(IsNegative(s))
       ELSE IF below.neg \/ below.mag = <<>> THEN Finite(IsNegative(s), <<>>, 0)
       ELSE FloatOfDecimal(IsNegative(s), NatOfDigits(SubSeq(ds, firstDigit, lastDigit)),
                           IntOfSigned(x))

-----------------------------------------------------------------------------
(* BattleModel (battle_model.py) *)

\* get_battle_score, line 116.
difficulty_modifier_with_default == [d \in {"HIGH", "MED", "LOW", "Easy", "INVALID"} |->
                          CASE d = "HIGH" -> 1 [] d = "MED" -> 2 [] d = "LOW" -> 3
                            [] OTHER -> 0]
difficulty_modifier == [d \in {"HIGH", "MED", "LOW"} |->
                          CASE d = "HIGH" -> 1 [] d = "MED" -> 2 [] d = "LOW" -> 3]

CanScore(m) == m.difficulty \in DOMAIN difficulty_modifier

\* (the modifier added)
BattleScorePlus(m) ==
    FAdd(FMulInt(m.price, Len(m.cuisine)),
         FloatOfInt(difficulty_modifier[m.difficulty]))

\* get_battle_score, line 123: the product is rounded, then the difference.
BattleScore(m) ==
    FSub(FMulInt(m.price, Len(m.cuisine)),
         FloatOfInt(difficulty_modifier[m.difficulty]))

\* (the difference not divided by 100)
DeltaNotNormalized(s1, s2) == FAbs(FSub(s1, s2))

\* battle, line 59: abs(score_1 - score_2) / 100, the difference rounded,
\* then the quotient.
Delta(s1, s2) == FDivInt(FAbs(FSub(s1, s2)), 100)

\* (a tie given to the first combatant)
FirstWinsTie(d, r) == FGreater(d, r) \/ FEqual(d, r)

\* battle, line 71: delta > random_number.
FirstWins(d, r) == FGreater(d, r)

\* prep_combatant, line 160.
ListFullAboveTwo(c) == Len(c) > 2
ListFullNever(c) == FALSE
ListFull(c) == Len(c) >= 2

\* battle, line 40.
TooFewOnlyEmpty(c) == Len(c) < 1
TooFew(c) == Len(c) < 2

\* list.remove(x): drop the first element equal to x (Meal.__eq__ compares
\* the fields).
\* (a pop of the last element instead)
RemoveLast(c, x, heap) == SubSeq(c, 1, Len(c) - 1)

RECURSIVE RemoveFirst(_, _, _)
RemoveFirst(c, x, heap) ==
    IF c = <<>> THEN <<>>
    ELSE IF heap[Head(c)] = heap[x] THEN Tail(c)
    ELSE <<Head(c)>> \o RemoveFirst(Tail(c), x, heap)

NoLocals ==
    /\ combatant_1' = 0
    /\ combatant_2' = 0
    /\ score_1' = FZero
    /\ score_2' = FZero
    /\ delta' = FZero
    /\ random_number' = FZero
    /\ winner' = 0
    /\ loser' = 0

\* (the new combatant put first)
PrepCombatantPrepends(ref) ==
    /\ pc = "idle"
    /\ ref \in DOMAIN meals
    /\ IF ListFull(combatants)
         THEN /\ last' = Raised("prep_combatant", "ValueError",
                                "Combatant list is full, cannot add more combatants.")
              /\ UNCHANGED combatants
         ELSE /\ combatants' = <<ref>> \o combatants
              /\ last' = Returned("prep_combatant", None)
    /\ NoEffects
    /\ UNCHANGED <<meals, pc, locals>>

\* prep_combatant(combatant_data)
PrepCombatant(ref) ==
    /\ pc = "idle"
    /\ ref \in DOMAIN meals
    /\ IF ListFull(combatants)
         THEN /\ last' = Raised("prep_combatant", "ValueError",
                                "Combatant list is full, cannot add more combatants.")
              /\ UNCHANGED combatants
         ELSE /\ combatants' = Append(combatants, ref)
              /\ last' = Returned("prep_combatant", None)
    /\ NoEffects
    /\ UNCHANGED <<meals, pc, locals>>

\* (only the last combatant dropped)
ClearCombatantsPopsOne ==
    /\ pc = "idle"
    /\ combatants' = SubSeq(combatants, 1, Len(combatants) - 1)
    /\ last' = Returned("clear_combatants", None)
    /\ NoEffects
    /\ UNCHANGED <<meals, pc, locals>>

\* clear_combatants()
ClearCombatants ==
    /\ pc = "idle"
    /\ combatants' = <<>>
    /\ last' = Returned("clear_combatants", None)
    /\ NoEffects
    /\ UNCHANGED <<meals, pc, locals>>

\* (the list handed over and emptied)
GetCombatantsDrains ==
    /\ pc = "idle"
    /\ last' = Returned("get_combatants", combatants)
    /\ combatants' = <<>>
    /\ NoEffects
    /\ UNCHANGED <<meals, pc, locals>>

\* get_combatants(): returns the list itself.
GetCombatants ==
    /\ pc = "idle"
    /\ last' = Returned("get_combatants", combatants)
    /\ NoEffects
    /\ UNCHANGED <<meals, combatants, pc, locals>>

\* get_battle_score(combatant), called on its own.
GetBattleScore(ref) ==
    /\ pc = "idle"
    /\ ref \in DOMAIN meals
    /\ IF CanScore(meals[ref])
         THEN last' = Returned("get_battle_score", BattleScore(meals[ref]))
         ELSE last' = Raised("get_battle_score", "KeyError", meals[ref].difficulty)
    /\ NoEffects
    /\ UNCHANGED <<meals, combatants, pc, locals>>

\* battle(), lines 38-62: the length check, the two scores and delta.
BattleStart ==
    /\ pc = "idle"
    /\ NoEffects
    /\ UNCHANGED <<meals, combatants>>
    /\ IF TooFew(combatants)
         THEN /\ last' = Raised("battle", "ValueError",
                                "Two combatants must be prepped for a battle.")
              /\ NoLocals
              /\ UNCHANGED pc
       ELSE IF Len(combatants) < 2
         \* lines 44-45: indexing a shorter list (only if line 40 let it pass)
         THEN /\ last' = Raised("battle", "IndexError", "list index out of range")
              /\ NoLocals
              /\ UNCHANGED pc
       ELSE IF ~CanScore(meals[combatants[1]])
         THEN /\ last' = Raised("battle", "KeyError", meals[combatants[1]].difficulty)
              /\ NoLocals
              /\ UNCHANGED pc
       ELSE IF ~CanScore(meals[combatants[2]])
         THEN /\ last' = Raised("battle", "KeyError", meals[combatants[2]].difficulty)
              /\ NoLocals
              /\ UNCHANGED pc
       ELSE /\ combatant_1' = combatants[1]
            /\ combatant_2' = combatants[2]
            /\ score_1' = BattleScore(meals[combatants[1]])
            /\ score_2' = BattleScore(meals[combatants[2]])
            /\ delta' = Delta(score_1', score_2')
            /\ pc' = "get_random"
            /\ last' = Running("battle")
            /\ UNCHANGED <<random_number, winner, loser>>

\* (a failed draw handled by emptying the arena)
BattleDrawClearsOnFailure(response) ==
    /\ pc = "get_random"
    /\ requests' = requests + 1
    /\ UNCHANGED <<meals, stats_calls, recorded>>
    /\ IF response.kind = "Timeout"
         THEN /\ last' = Raised("battle", "RuntimeError", "Request to random.org timed out.")
              /\ combatants' = <<>>
              /\ pc' = "idle"
              /\ NoLocals
       ELSE IF response.kind = "RequestException"
         THEN /\ last' = RaisedWith("battle", "RuntimeError",
                                    "Request to random.org failed: %s", response.text)
              /\ combatants' = <<>>
              /\ pc' = "idle"
              /\ NoLocals
       ELSE IF ~IsNumber(Strip(response.text))
         THEN /\ last' = RaisedWith("battle", "ValueError",
                                    "Invalid response from random.org: %s",
                                    Strip(response.text))
              /\ combatants' = <<>>
              /\ pc' = "idle"
              /\ NoLocals
       ELSE /\ random_number' = ToFloat(Strip(response.text))
            /\ IF FirstWins(delta, random_number')
                 THEN winner' = combatant_1 /\ loser' = combatant_2
                 ELSE winner' = combatant_2 /\ loser' = combatant_1
            /\ pc' = "update_winner"
            /\ UNCHANGED <<combatants, combatant_1, combatant_2, score_1, score_2,
                           delta, last>>

\* battle(), lines 65-79: get_random() and the decision.
BattleDraw(response) ==
    /\ pc = "get_random"
    /\ requests' = requests + 1
    /\ UNCHANGED <<meals, combatants, stats_calls, recorded>>
    /\ IF response.kind = "Timeout"
         THEN /\ last' = Raised("battle", "RuntimeError", "Request to random.org timed out.")
              /\ pc' = "idle"
              /\ NoLocals
       ELSE IF response.kind = "RequestException"
         \* random_utils.py, lines 52-54: the message ends with str(e)
         THEN /\ last' = RaisedWith("battle", "RuntimeError",
                                    "Request to random.org failed: %s", response.text)
              /\ pc' = "idle"
              /\ NoLocals
       ELSE IF ~IsNumber(Strip(response.text))
         \* random_utils.py, line 43: the message ends with the stripped body
         THEN /\ last' = RaisedWith("battle", "ValueError",
                                    "Invalid response from random.org: %s",
                                    Strip(response.text))
              /\ pc' = "idle"
              /\ NoLocals
       ELSE /\ random_number' = ToFloat(Strip(response.text))
            /\ IF FirstWins(delta, random_number')
                 THEN winner' = combatant_1 /\ loser' = combatant_2
                 ELSE winner' = combatant_2 /\ loser' = combatant_1
            /\ pc' = "update_winner"
            /\ UNCHANGED <<combatant_1, combatant_2, score_1, score_2, delta, last>>

\* update_meal_stats(meal_id, result) as battle() sees it: it returns, or it
\* raises and battle() is abandoned.
UpdateMealStats(meal_id, result, outcome, next_pc) ==
    /\ stats_calls' = Append(stats_calls, <<meal_id, result>>)
    /\ IF outcome = "ok"
         THEN /\ recorded' = Append(recorded, <<meal_id, result>>)
              /\ pc' = next_pc
              /\ UNCHANGED <<locals, last>>
         ELSE /\ last' = Raised("battle", outcome, "update_meal_stats")
              /\ pc' = "idle"
              /\ NoLocals
              /\ UNCHANGED recorded

\* (the loser removed before the statistics are reported)
BattleUpdateWinnerAfterRemove(outcome) ==
    /\ pc = "update_winner"
    /\ UpdateMealStats(meals[winner].id, "win", outcome, "update_loser")
    /\ combatants' = RemoveFirst(combatants, loser, meals)
    /\ UNCHANGED <<meals, requests>>

\* battle(), line 82.
BattleUpdateWinner(outcome) ==
    /\ pc = "update_winner"
    /\ UpdateMealStats(meals[winner].id, "win", outcome, "update_loser")
    /\ UNCHANGED <<meals, combatants, requests>>

\* (the loser removed before its loss is reported)
BattleUpdateLoserAfterRemove(outcome) ==
    /\ pc = "update_loser"
    /\ UpdateMealStats(meals[loser].id, "loss", outcome, "remove_loser")
    /\ combatants' = RemoveFirst(combatants, loser, meals)
    /\ UNCHANGED <<meals, requests>>

\* battle(), line 83.
BattleUpdateLoser(outcome) ==
    /\ pc = "update_loser"
    /\ UpdateMealStats(meals[loser].id, "loss", outcome, "remove_loser")
    /\ UNCHANGED <<meals, combatants, requests>>

\* (the loser left in the list)
BattleRemoveLoserKeepsBoth ==
    /\ pc = "remove_loser"
    /\ last' = Returned("battle", meals[winner].meal)
    /\ pc' = "idle"
    /\ NoLocals
    /\ UNCHANGED <<meals, combatants, requests, stats_calls, recorded>>

\* battle(), lines 86-88.
BattleRemoveLoser ==
    /\ pc = "remove_loser"
    /\ combatants' = RemoveFirst(combatants, loser, meals)
    /\ last' = Returned("battle", meals[winner].meal)
    /\ pc' = "idle"
    /\ NoLocals
    /\ UNCHANGED <<meals, requests, stats_calls, recorded>>

-----------------------------------------------------------------------------

Init ==
    /\ meals = <<>>
    /\ combatants = <<>>
    /\ pc = "idle"
    /\ combatant_1 = 0
    /\ combatant_2 = 0
    /\ score_1 = FZero
    /\ score_2 = FZero
    /\ delta = FZero
    /\ random_number = FZero
    /\ winner = 0
    /\ loser = 0
    /\ requests = 0
    /\ stats_calls = <<>>
    /\ recorded = <<>>
    /\ last = Returned("BattleModel", None)

Next ==
    \/ \E id \in 1..MaxMeals, price \in PriceInputs, difficulty \in DifficultyInputs :
          Meal(id, MealNames[id], MealCuisines[id], price, difficulty)
    \/ \E ref \in 1..MaxMeals, value \in AssignedDifficulties : SetDifficulty(ref, value)
    \/ \E ref \in 1..MaxMeals : PrepCombatant(ref)
    \/ ClearCombatants
    \/ GetCombatants
    \/ \E ref \in 1..MaxMeals : GetBattleScore(ref)
    \/ BattleStart
    \/ \E response \in Responses : BattleDraw(response)
    \/ \E outcome \in StatsOutcomes : BattleUpdateWinner(outcome)
    \/ \E outcome \in StatsOutcomes : BattleUpdateLoser(outcome)
    \/ BattleRemoveLoser

Spec == Init /\ [][Next]_vars

-----------------------------------------------------------------------------
(* The arena as the unit tests drive it: get_random is patched to return a
   fixed number (test_battle_model.py, lines 9 and 23), so that no request
   is made and the number need not be one random.org would send. *)

\* Names of the tests' meals, by id.
PatchedNames == <<"Spaghetti", "Burger", "Sushi", "Tacos">>

\* Prices of the tests' meals: 8.99, 9.99, 10.99, 12.99, a price whose
\* scores are rounded: 0.03, and a price whose scores overflow: 1e308.
PatchedPrices ==
    {Hundredths(3), Hundredths(899), Hundredths(999), Hundredths(1099),
     Hundredths(1299), FloatOfDecimal(FALSE, NatOf(1), 308)}

\* Labels passed to the constructor, and labels assigned afterwards.
PatchedDifficulties == {"Easy", "MED", "LOW"}
PatchedAssigned == {"MED", "LOW"}

\* Values the patched get_random returns: 0.05, 0.4, 0.5.
PatchedDraws ==
    {FloatOfDecimal(FALSE, NatOf(5), -2), FloatOfDecimal(FALSE, NatOf(4), -1),
     FloatOfDecimal(FALSE, NatOf(5), -1)}

\* battle(), lines 65-79, with get_random patched to return r.
BattleDrawPatched(r) ==
    /\ pc = "get_random"
    /\ random_number' = r
    /\ IF FirstWins(delta, r)
         THEN winner' = combatant_1 /\ loser' = combatant_2
         ELSE winner' = combatant_2 /\ loser' = combatant_1
    /\ pc' = "update_winner"
    /\ UNCHANGED <<meals, combatants, requests, stats_calls, recorded,
                   combatant_1, combatant_2, score_1, score_2, delta, last>>

PatchedNext ==
    \/ \E id \in 1..MaxMeals, price \in PatchedPrices, difficulty \in PatchedDifficulties :
          Meal(id, PatchedNames[id], MealCuisines[id], price, difficulty)
    \/ \E ref \in 1..MaxMeals, value \in PatchedAssigned : SetDifficulty(ref, value)
    \/ \E ref \in 1..MaxMeals : PrepCombatant(ref)
    \/ ClearCombatants
    \/ BattleStart
    \/ \E r \in PatchedDraws : BattleDrawPatched(r)
    \/ \E outcome \in StatsOutcomes : BattleUpdateWinner(outcome)
    \/ \E outcome \in StatsOutcomes : BattleUpdateLoser(outcome)
    \/ BattleRemoveLoser

SpecPatched == Init /\ [][PatchedNext]_vars

-----------------------------------------------------------------------------
(* The arena as a caller running a series of battles drives it: Meal 1 is
   staged into the empty arena, and a Meal is staged next to another only
   if it is not that one.  A list that starts with another Meal than Meal 1
   is then the list a battle left behind. *)

RematchStages(ref) ==
    /\ (combatants = <<>> => ref = 1)
    /\ (Len(combatants) = 1 => ref # combatants[1])
    /\ PrepCombatant(ref)

RematchNext ==
    \/ \E id \in 1..MaxMeals, price \in PriceInputs, difficulty \in DifficultyInputs :
          Meal(id, MealNames[id], MealCuisines[id], price, difficulty)
    \/ \E ref \in 1..MaxMeals, value \in AssignedDifficulties : SetDifficulty(ref, value)
    \/ \E ref \in 1..MaxMeals : RematchStages(ref)
    \/ ClearCombatants
    \/ GetCombatants
    \/ BattleStart
    \/ \E response \in Responses : BattleDraw(response)
    \/ \E outcome \in StatsOutcomes : BattleUpdateWinner(outcome)
    \/ \E outcome \in StatsOutcomes : BattleUpdateLoser(outcome)
    \/ BattleRemoveLoser

SpecRematch == Init /\ [][RematchNext]_vars

-----------------------------------------------------------------------------
(* The arena as a caller who scores meals drives it (battle_model_tests.py,
   lines 99-117): Meals are constructed, labelled, staged and scored, and no
   battle is run. *)

\* Prices of the scored meals: 14.32, whose score is rounded, and 500.00.
ScorePrices == {Hundredths(1432), Hundredths(50000)}

\* The label the constructor is given; the labels assigned afterwards are
\* AssignedDifficulties.
ScoreDifficulties == {"Easy"}

ScoreNext ==
    \/ \E id \in 1..MaxMeals, price \in ScorePrices, difficulty \in ScoreDifficulties :
          Meal(id, MealNames[id], MealCuisines[id], price, difficulty)
    \/ \E ref \in 1..MaxMeals, value \in AssignedDifficulties : SetDifficulty(ref, value)
    \/ \E ref \in 1..MaxMeals : PrepCombatant(ref)
    \/ \E ref \in 1..MaxMeals : GetBattleScore(ref)

SpecScore == Init /\ [][ScoreNext]_vars

-----------------------------------------------------------------------------
(* Properties *)

InBattle == pc # "idle"

\* A step that is the call of battle() from the idle arena.
BattleCalled == pc = "idle" /\ last'.op = "battle"

\* A step that is a call of prep_combatant.
PrepCalled == pc = "idle" /\ last'.op = "prep_combatant"

\* The step on which a successful battle() returns.
BattleReturns == pc = "remove_loser"

WinCall == <<meals[winner].id, "win">>
LossCall == <<meals[loser].id, "loss">>

\* C1: whatever sequence of prep_combatant, battle and clear_combatants
\* calls ran, succeeding or failing, the combatant list has length 0, 1 or 2.
C1_AtMostTwoCombatants == Len(combatants) \in {0, 1, 2}

\* Two meals are staged and the last stage succeeded.
C1_Witness ==
    /\ Len(combatants) = 2
    /\ last = Returned("prep_combatant", None)

\* C2: a successful battle leaves exactly one combatant, the winner whose
\* name it returns, and has called update_meal_stats exactly twice: 'win'
\* for the winner's id and 'loss' for the loser's id.
C2_SuccessfulBattle ==
    [][BattleReturns =>
          /\ Len(combatants') = 1
          /\ combatants'[1] = winner
          /\ last' = Returned("battle", meals[combatants'[1]].meal)
          /\ stats_calls' = <<WinCall, LossCall>>
          /\ recorded' = <<WinCall, LossCall>>]_vars

\* A battle between two different meals returned, the second one winning.
C2_Witness ==
    /\ last.op = "battle"
    /\ last.raised = None
    /\ Len(combatants) = 1
    /\ combatants[1] = 2
    /\ stats_calls = <<<<2, "win">>, <<1, "loss">>>>

\* C3: with c1, c2 the combatants in list order, delta their score
\* difference over 100 and r the number drawn, battle returns c1's name if
\* delta > r and c2's name otherwise, a tie included.
C3_DecisionRule ==
    [][BattleReturns =>
          /\ score_1 = BattleScore(meals[combatants[1]])
          /\ score_2 = BattleScore(meals[combatants[2]])
          /\ delta = FDivInt(FAbs(FSub(score_1, score_2)), 100)
          /\ (FGreater(delta, random_number) =>
                 winner = combatants[1] /\ last'.value = meals[combatants[1]].meal)
          /\ (~FGreater(delta, random_number) =>
                 winner = combatants[2] /\ last'.value = meals[combatants[2]].meal)
          /\ last'.raised = None]_vars

\* The first combatant is about to be returned as the winner of two
\* different meals.
C3_Witness ==
    /\ pc = "remove_loser"
    /\ FGreater(delta, random_number)
    /\ winner = combatants[1]
    /\ combatants[1] # combatants[2]

\* C4: battle called with 0 or 1 combatants raises ValueError, leaves the
\* list as it was and calls update_meal_stats not once.
C4_TooFewCombatants ==
    [][BattleCalled /\ Len(combatants) < 2 =>
          /\ pc' = "idle"
          /\ last' = Raised("battle", "ValueError",
                            "Two combatants must be prepped for a battle.")
          /\ combatants' = combatants
          /\ stats_calls' = <<>>
          /\ recorded' = <<>>
          /\ requests' = 0]_vars

\* battle was refused with one meal staged.
C4_Witness ==
    /\ last.op = "battle"
    /\ last.raised = "ValueError"
    /\ last.value = "Two combatants must be prepped for a battle."
    /\ Len(combatants) = 1

\* C5: prep_combatant called with two combatants staged raises ValueError
\* and leaves the list exactly as it was.
C5_StageWhenFull ==
    [][PrepCalled /\ Len(combatants) >= 2 =>
          /\ last' = Raised("prep_combatant", "ValueError",
                            "Combatant list is full, cannot add more combatants.")
          /\ combatants' = combatants
          /\ meals' = meals]_vars

\* A third stage was refused.
C5_Witness ==
    /\ last.op = "prep_combatant"
    /\ last.raised = "ValueError"
    /\ Len(combatants) = 2

\* C6: the constructor accepts the labels get_battle_score accepts: a Meal
\* with price >= 0 and difficulty LOW, MED or HIGH is constructed, and every
\* Meal just constructed can be scored.
C6_SameLabelSets ==
    [][/\ \A id \in 1..MaxMeals, price \in PriceInputs, difficulty \in DifficultyInputs :
            /\ Meal(id, MealNames[id], MealCuisines[id], price, difficulty)
            /\ ~FGreater(FZero, price)
            /\ difficulty \in {"LOW", "MED", "HIGH"}
            => last'.raised = None
       /\ (pc = "idle" /\ last'.op = "Meal" /\ last'.raised = None
            => CanScore(meals'[last'.value]))]_vars

\* C7: the number drawn and compared with delta lies between 0 and 1.
C7_DrawInUnitInterval ==
    pc \in {"update_winner", "update_loser", "remove_loser"} =>
        ~FGreater(FZero, random_number) /\ ~FGreater(random_number, FloatOfInt(1))

\* C8: update_meal_stats is called with 'win' for the winner, then with
\* 'loss' for the loser, and the list keeps both combatants until both
\* calls have returned.
C8_WinThenLossThenRemove ==
    /\ InBattle => combatants = <<combatant_1, combatant_2>>
    /\ pc = "get_random" => stats_calls = <<>>
    /\ pc = "update_winner" => stats_calls = <<>>
    /\ pc = "update_loser" => stats_calls = <<WinCall>> /\ recorded = stats_calls
    /\ pc = "remove_loser" => stats_calls = <<WinCall, LossCall>> /\ recorded = stats_calls
    /\ (last.op = "battle" /\ last.raised = None) =>
          /\ Len(stats_calls) = 2
          /\ stats_calls[1][2] = "win"
          /\ stats_calls[2][2] = "loss"
          /\ stats_calls[1][1] = meals[combatants[1]].id

\* The winner's call has returned, the loser's has not been made, and both
\* combatants are still staged.
C8_Witness ==
    /\ pc = "update_loser"
    /\ Len(stats_calls) = 1
    /\ Len(combatants) = 2
    /\ winner # loser

\* C9: every constructed Meal has price >= 0 and a recognized difficulty in
\* every later state: none of its fields changes after its construction.
C9_MealStaysValid ==
    \A ref \in DOMAIN meals :
        /\ FGreater(meals[ref].price, FZero) \/ FEqual(meals[ref].price, FZero)
        /\ meals[ref].difficulty \in ConstructorDifficulties \cup DOMAIN difficulty_modifier

\* C10: constructing a Meal with price < 0 raises ValueError and yields no
\* object, whatever id, name, cuisine and difficulty are passed.
C10_NegativePriceRejected ==
    [][(pc = "idle" /\ last'.op = "Meal") =>
          \A id \in 1..MaxMeals, price \in PriceInputs, difficulty \in DifficultyInputs :
             (/\ FGreater(FZero, price)
              /\ Meal(id, MealNames[id], MealCuisines[id], price, difficulty))
             => /\ last' = Raised("Meal", "ValueError", "Price must be a positive value.")
                /\ meals' = meals]_vars

\* A construction was refused for its price.
C10_Witness ==
    /\ last.op = "Meal"
    /\ last.raised = "ValueError"
    /\ last.value = "Price must be a positive value."

\* C11: for a combatant whose difficulty is HIGH, MED or LOW,
\* get_battle_score returns price * len(cuisine) - penalty with penalty 1, 2,
\* 3 (the float product, less the penalty), and the call changes neither
\* the list nor any Meal (so a second call returns the same value).
C11_ScoreFormula ==
    [][(pc = "idle" /\ last'.op = "get_battle_score") =>
          \A ref \in 1..MaxMeals :
             (/\ ref \in DOMAIN meals
              /\ meals[ref].difficulty \in {"HIGH", "MED", "LOW"}
              /\ GetBattleScore(ref))
             => LET m == meals[ref]
                    product == FMulInt(m.price, Len(m.cuisine))
                    penalty == IF m.difficulty = "HIGH" THEN 1
                               ELSE IF m.difficulty = "MED" THEN 2
                               ELSE 3
                    expected == FSub(product, FloatOfInt(penalty))
                IN /\ last' = Returned("get_battle_score", expected)
                   /\ combatants' = combatants
                   /\ meals' = meals
                   /\ pc' = "idle"]_vars

\* The score of a staged HIGH meal priced 14.32 with a 7-letter cuisine
\* was returned: 99.24000000000001, the float next above 99.24.
C11_Witness ==
    /\ last.op = "get_battle_score"
    /\ last.raised = None
    /\ FCmp(last.value, Hundredths(9924)) > 0
    /\ FCmp(last.value, FloatOfDecimal(FALSE, NatOf(992401), -4)) < 0
    /\ \E i \in 1..Len(combatants) :
          /\ meals[combatants[i]].difficulty = "HIGH"
          /\ meals[combatants[i]].price = Hundredths(1432)
          /\ meals[combatants[i]].cuisine = "Italian"
          /\ last.value = BattleScore(meals[combatants[i]])

\* C12: get_battle_score on a combatant whose difficulty is not HIGH, MED
\* or LOW raises KeyError, whatever the price and cuisine, and returns no
\* score.
C12_UnknownDifficulty ==
    [][(pc = "idle" /\ last'.op = "get_battle_score") =>
          \A ref \in 1..MaxMeals :
             (/\ ref \in DOMAIN meals
              /\ meals[ref].difficulty \notin {"HIGH", "MED", "LOW"}
              /\ GetBattleScore(ref))
             => /\ last'.raised = "KeyError"
                /\ last'.value = meals[ref].difficulty
                /\ combatants' = combatants
                /\ meals' = meals]_vars

\* Scoring a Meal labelled INVALID raised KeyError.
C12_Witness ==
    /\ last = Raised("get_battle_score", "KeyError", "INVALID")
    /\ \E ref \in DOMAIN meals : meals[ref].difficulty = "INVALID"

\* C13: clear_combatants leaves the list empty whatever it held, never
\* raises, and so does a second call.
C13_ClearEmpties ==
    [][pc = "idle" /\ last'.op = "clear_combatants" =>
          /\ combatants' = <<>>
          /\ last' = Returned("clear_combatants", None)
          /\ meals' = meals
          /\ pc' = "idle"]_vars

\* The list was cleared after two Meals had been constructed.
C13_Witness ==
    /\ last = Returned("clear_combatants", None)
    /\ combatants = <<>>
    /\ Cardinality(DOMAIN meals) >= 2

\* C14: a timeout or transport failure of the source ends battle with
\* RuntimeError, a body that is no number ends it with ValueError, and in
\* both cases the one request made is the only one.
C14_EntropyFailure ==
    [][pc = "get_random" =>
        \A response \in Responses :
          BattleDraw(response)
          => /\ (response.kind \in {"Timeout", "RequestException"} =>
                    /\ last'.op = "battle"
                    /\ last'.raised = "RuntimeError"
                    /\ pc' = "idle")
             /\ (response.kind = "ok" /\ response.text \in BadBodies =>
                    /\ last'.op = "battle"
                    /\ last'.raised = "ValueError"
                    /\ pc' = "idle")
             /\ requests' = 1]_vars

\* battle ended on the body "Error" after one request.
C14_Witness ==
    /\ last = RaisedWith("battle", "ValueError", "Invalid response from random.org: %s",
                         <<69, 114, 114, 111, 114>>)
    /\ requests = 1
    /\ pc = "idle"

\* C15: A = (12.99, 'Italian', MED) scores 88.93, B = (9.99, 'American',
\* LOW) scores 76.92, delta is 0.1201; with A first and B second a draw of
\* 0.5 makes B the winner and a draw of 0.05 makes A the winner.
C15_ScenarioAB ==
    [][(/\ BattleReturns
        /\ meals[combatants[1]].price = Hundredths(1299)
        /\ meals[combatants[1]].cuisine = "Italian"
        /\ meals[combatants[1]].difficulty = "MED"
        /\ meals[combatants[2]].price = Hundredths(999)
        /\ meals[combatants[2]].cuisine = "American"
        /\ meals[combatants[2]].difficulty = "LOW")
       => /\ score_1 = Hundredths(8893)
          /\ score_2 = Hundredths(7692)
          /\ delta = FloatOfDecimal(FALSE, NatOf(1201), -4)
          /\ (random_number = FloatOfDecimal(FALSE, NatOf(5), -1) =>
                 last' = Returned("battle", meals[combatants[2]].meal)
                 /\ combatants' = <<combatants[2]>>)
          /\ (random_number = FloatOfDecimal(FALSE, NatOf(5), -2) =>
                 last' = Returned("battle", meals[combatants[1]].meal)
                 /\ combatants' = <<combatants[1]>>)]_vars

\* C16: Spaghetti (id 1, 10.99, 'Italian', MED) first, Burger (id 2, 8.99,
\* 'American', LOW) second and a draw of 0.4: battle returns 'Spaghetti'
\* and reports 'win' for id 1 and 'loss' for id 2.
C16_TestBattle ==
    [][(/\ BattleReturns
        /\ meals[combatants[1]] = NewMeal(1, "Spaghetti", "Italian", Hundredths(1099), "MED")
        /\ meals[combatants[2]] = NewMeal(2, "Burger", "American", Hundredths(899), "LOW")
        /\ random_number = FloatOfDecimal(FALSE, NatOf(4), -1))
       => /\ last' = Returned("battle", "Spaghetti")
          /\ stats_calls' = <<<<1, "win">>, <<2, "loss">>>>]_vars

\* C17: prep_combatant with fewer than two combatants staged succeeds,
\* makes the list one longer, puts the new combatant last and leaves the
\* one already staged at position 1.
C17_StageAppends ==
    [][\A ref \in 1..MaxMeals :
          PrepCombatant(ref) /\ Len(combatants) < 2
          => /\ last' = Returned("prep_combatant", None)
             /\ Len(combatants') = Len(combatants) + 1
             /\ combatants'[Len(combatants')] = ref
             /\ (Len(combatants) = 1 => combatants'[1] = combatants[1])
             /\ meals' = meals]_vars

\* The second Meal was staged first, the first Meal after it.
C17_Witness ==
    /\ combatants = <<2, 1>>
    /\ last = Returned("prep_combatant", None)

\* C18: get_combatants returns the staged combatants in list order (the
\* empty list for a new or cleared arena) and changes neither the list nor
\* any Meal.
C18_ListCombatants ==
    [][pc = "idle" /\ last'.op = "get_combatants" =>
          /\ last' = Returned("get_combatants", combatants)
          /\ combatants' = combatants
          /\ meals' = meals
          /\ pc' = "idle"]_vars

\* Two different staged combatants were returned, in order.
C18_Witness ==
    /\ last.op = "get_combatants"
    /\ last.raised = None
    /\ last.value = combatants
    /\ Len(combatants) = 2
    /\ combatants[1] # combatants[2]

\* C19: for any price and cuisine, the score with difficulty HIGH is the
\* score with difficulty LOW plus exactly 2: the difference of the two
\* scores, as the program would compute it, equals 2.
C19_HighExceedsLowByTwo ==
    \A ref \in DOMAIN meals :
        FEqual(FSub(BattleScore([meals[ref] EXCEPT !.difficulty = "HIGH"]),
                    BattleScore([meals[ref] EXCEPT !.difficulty = "LOW"])),
               FloatOfInt(2))

\* C20: when an update_meal_stats call raises, battle ends with that error
\* and both combatants stay staged in their order; if it was the winner's
\* call nothing is recorded, if it was the loser's call the winner's 'win'
\* stays recorded.
C20_StatsFailure ==
    [][(pc' = "idle" /\ pc \in {"update_winner", "update_loser"}) =>
          /\ last'.op = "battle"
          /\ last'.raised \in {"ValueError", "sqlite3.Error"}
          /\ combatants' = combatants
          /\ combatants' = <<combatant_1, combatant_2>>
          /\ (pc = "update_winner" =>
                 recorded' = <<>> /\ stats_calls' = <<WinCall>>)
          /\ (pc = "update_loser" =>
                 recorded' = <<WinCall>> /\ stats_calls' = <<WinCall, LossCall>>)]_vars

\* The loser's call failed after the winner's win was recorded.
C20_Witness ==
    /\ last = Raised("battle", "sqlite3.Error", "update_meal_stats")
    /\ Len(recorded) = 1
    /\ recorded[1][2] = "win"
    /\ Len(stats_calls) = 2
    /\ Len(combatants) = 2
    /\ combatants[1] # combatants[2]

\* C21: when battle on two staged combatants fails while scoring either of
\* them or while drawing, update_meal_stats has not been called and both
\* combatants are still staged in their order; a scoring failure comes
\* before any request to the source.
C21_FailureBeforeStats ==
    [][((BattleCalled /\ last'.raised = "KeyError")
          \/ (pc = "get_random" /\ pc' = "idle"))
       => /\ last'.op = "battle"
          /\ last'.raised \in {"KeyError", "RuntimeError", "ValueError"}
          /\ stats_calls' = <<>>
          /\ recorded' = <<>>
          /\ Len(combatants) = 2
          /\ combatants' = combatants
          /\ (last'.raised = "KeyError" => requests' = 0)
          /\ (last'.raised # "KeyError" => requests' = 1)]_vars

\* battle failed on the score of the second combatant, the first being
\* scorable: both are still staged and no request was made.
C21_Witness ==
    /\ last.op = "battle"
    /\ last.raised = "KeyError"
    /\ Len(combatants) = 2
    /\ CanScore(meals[combatants[1]])
    /\ ~CanScore(meals[combatants[2]])
    /\ requests = 0
    /\ stats_calls = <<>>

\* C22: a battle that returns takes the list from two combatants to one, so
\* a battle called again before anything is staged (only prep_combatant
\* lengthens the list) raises the ValueError of line 42 and reports nothing.
C22_SecondBattleFails ==
    [][/\ (BattleReturns => Len(combatants) = 2 /\ Len(combatants') = 1)
       /\ (Len(combatants') > Len(combatants) => last'.op = "prep_combatant")
       /\ (BattleCalled /\ Len(combatants) = 1 =>
              /\ last' = Raised("battle", "ValueError",
                                "Two combatants must be prepped for a battle.")
              /\ combatants' = combatants
              /\ stats_calls' = <<>>
              /\ recorded' = <<>>
              /\ requests' = 0)]_vars

\* Meal 2 alone is staged, which only a battle it won leaves behind, and
\* battle was just refused.
C22_Witness ==
    /\ combatants = <<2>>
    /\ last = Raised("battle", "ValueError", "Two combatants must be prepped for a battle.")
    /\ stats_calls = <<>>

\* C23: a battle that returns leaves the winner alone in the list, whichever
\* role it had; the next prep_combatant succeeds and puts the new combatant
\* behind it, a further one raises; the next battle takes the list's first
\* element (the previous winner) as combatant 1 and the second as
\* combatant 2.
C23_WinnerBecomesFirst ==
    [][/\ (BattleReturns =>
              /\ winner \in {combatant_1, combatant_2}
              /\ combatants' = <<winner>>)
       /\ (PrepCalled /\ Len(combatants) = 1 =>
              /\ last' = Returned("prep_combatant", None)
              /\ Len(combatants') = 2
              /\ combatants'[1] = combatants[1]
              /\ combatants'[2] # combatants[1])
       /\ (PrepCalled /\ Len(combatants) = 2 =>
              /\ last'.raised = "ValueError"
              /\ combatants' = combatants)
       /\ (BattleCalled /\ pc' = "get_random" =>
              /\ combatant_1' = combatants[1]
              /\ combatant_2' = combatants[2])]_vars

\* Meal 2 won as combatant 2, Meal 1 was staged behind it, and in the
\* battle now running Meal 2 is combatant 1 and Meal 1 combatant 2.
C23_Witness ==
    /\ pc = "get_random"
    /\ combatants = <<2, 1>>
    /\ combatant_1 = 2
    /\ combatant_2 = 1

\* C24: when the body is an integer 1..100, the draw battle uses is that
\* integer, unscaled, so combatant 2 wins whenever the scores differ by
\* 100 or less, and combatant 1 wins only if |score_1 - score_2| >
\* 100 * random_number (the difference of the two floats taken without
\* rounding).  The winner is told from combatant 2, which a Meal staged
\* twice is as well.
C24_UnscaledDrawFavoursSecond ==
    [][pc = "get_random" =>
        \A response \in Responses :
          (response.kind = "ok" /\ response.text \in NumericBodies /\ BattleDraw(response))
          => /\ pc' = "update_winner"
             /\ random_number' \in {FloatOfInt(n) : n \in 1..100}
             /\ winner' \in {combatant_1, combatant_2}
             /\ (FCmp(FAbs(ExactSub(score_1, score_2)), FloatOfInt(100)) <= 0 =>
                    winner' = combatant_2 /\ loser' = combatant_1)
             /\ (winner' # combatant_2 =>
                    /\ winner' = combatant_1 /\ loser' = combatant_2
                    /\ FCmp(FAbs(ExactSub(score_1, score_2)),
                            FMulInt(random_number', 100)) > 0
                    /\ FCmp(FAbs(ExactSub(score_1, score_2)), FloatOfInt(100)) > 0)]_vars

\* The scores differed by no more than 2, the draw was 1, and combatant 2
\* won.
C24_Witness ==
    /\ pc = "update_winner"
    /\ score_1 # score_2
    /\ FCmp(FAbs(ExactSub(score_1, score_2)), FloatOfInt(2)) <= 0
    /\ random_number = FloatOfInt(1)
    /\ winner = combatant_2
    /\ combatant_1 # combatant_2

\* C25: prep_combatant accepts a Meal that is already staged; a battle of
\* a Meal against itself that returns has delta 0, declares combatant 2
\* (the copy staged second) the winner, reports one 'win' and one 'loss'
\* for the one id, and leaves that Meal alone in the list.
C25_SameMealTwice ==
    [][/\ (\A ref \in 1..MaxMeals :
              PrepCombatant(ref) /\ combatants = <<ref>>
              => /\ last' = Returned("prep_combatant", None)
                 /\ combatants' = <<ref, ref>>)
       /\ ((/\ BattleReturns
             /\ combatants[1] = combatants[2]
             /\ ~FGreater(FZero, random_number)) =>
              /\ delta = FZero
              /\ ~FirstWins(delta, random_number)
              /\ winner = combatant_2
              /\ stats_calls' = << <<meals[combatants[1]].id, "win">>,
                                   <<meals[combatants[1]].id, "loss">> >>
              /\ recorded' = stats_calls'
              /\ combatants' = <<combatants[1]>>
              /\ last' = Returned("battle", meals[combatants[1]].meal))]_vars

=============================================================================
